---------------------------- MODULE Spec2Model ----------------------------
(***************************************************************************)
(* A model of the resiliency core of unifiedcatalogpy:                     *)
(*   - CircuitBreaker                (unifiedcatalogpy/retry.py)           *)
(*   - retry_on_failure, should_retry, calculate_delay  (retry.py)         *)
(*   - the exception classes         (unifiedcatalogpy/exceptions.py)      *)
(*   - the failures ApiClient raises (unifiedcatalogpy/api_client.py)      *)
(*                                                                         *)
(* Spec      : one CircuitBreaker used by a single thread, guarding an     *)
(*             operation whose outcome is chosen freely on every call.     *)
(* SpecRetry : one function wrapped by retry_on_failure(config).           *)
(*                                                                         *)
(* Python's None is the empty sequence, a value v that is set is <<v>>.    *)
(* An absent status_code is the empty set, a status code c is {c}.         *)
(***************************************************************************)
EXTENDS Integers, Sequences, FiniteSets, TLC

(***************************************************************************)
(* Bounds of the model.                                                    *)
(***************************************************************************)
MaxThreshold == 2
MaxTimeout == 2
MaxTime == 4
MaxFailures == 4
MaxProbes == 2
MaxAttempts == 3
MaxClientTime == 12
MaxClientFailures == 6
MaxIdlePeriods == 1
MaxThreads == 2

None == <<>>
Some(v) == <<v>>

(***************************************************************************)
(* exceptions.py: the class hierarchy, with the builtins the code names.   *)
(***************************************************************************)
Parent(c) ==
    CASE c = "Exception"               -> "BaseException"
      [] c = "KeyboardInterrupt"       -> "BaseException"
      [] c = "ValueError"              -> "Exception"
      [] c = "RuntimeError"            -> "Exception"
      [] c = "UnifiedCatalogError"     -> "Exception"
      [] c = "AuthenticationError"     -> "UnifiedCatalogError"
      [] c = "APIError"                -> "UnifiedCatalogError"
      [] c = "ValidationError"         -> "UnifiedCatalogError"
      [] c = "EntityNotFoundError"     -> "APIError"
      [] c = "RelationshipError"       -> "UnifiedCatalogError"
      [] c = "PermissionError"         -> "APIError"
      [] c = "CircuitBreakerOpenError" -> "Exception"
      [] OTHER                         -> "BaseException"

RECURSIVE IsSubclass(_, _)
IsSubclass(c, d) ==
    IF c = d THEN TRUE
    ELSE IF c = "BaseException" THEN FALSE
    ELSE IsSubclass(Parent(c), d)

\* isinstance(e, cls)
IsInstance(e, cls) == IsSubclass(e.cls, cls)

(***************************************************************************)
(* What a call delivers: a returned value or a raised exception.           *)
(***************************************************************************)
Raise(c, s) == [kind |-> "raise", cls |-> c, status |-> s]
Return(s) == [kind |-> "return", cls |-> "Result", status |-> s]
NoOutcome == [kind |-> "none", cls |-> "", status |-> {}]

\* raise CircuitBreakerOpenError("Circuit breaker is OPEN")
CircuitOpenRejection == Raise("CircuitBreakerOpenError", {})

(***************************************************************************)
(* api_client.py: what _request_with_retry's body delivers for a response. *)
(***************************************************************************)
TokenFailure == Raise("AuthenticationError", {})
TransportFailure == Raise("APIError", {})

ResponseOutcome(code) ==
    IF code = 204 THEN Return({code})
    ELSE IF 299 >= code /\ code >= 200 THEN Return({code})
    ELSE IF code = 401 THEN Raise("AuthenticationError", {})
    ELSE Raise("APIError", {code})

ResponseCodes == {200, 204, 400, 401, 403, 404, 500}

\* The failure kind of an exception, by where api_client.py and exceptions.py raise it.
Kind(e) ==
    IF IsInstance(e, "AuthenticationError") THEN "Authentication"
    ELSE IF IsInstance(e, "ValidationError") THEN "Validation"
    ELSE IF IsInstance(e, "APIError") THEN
        IF e.status = {} /\ e.cls = "APIError" THEN "Transport"
        ELSE IF e.status = {403} \/ e.cls = "PermissionError" THEN "Permission"
        ELSE IF e.status = {404} \/ e.cls = "EntityNotFoundError" THEN "NotFound"
        ELSE IF \E c \in e.status : c >= 500 /\ c <= 599 THEN "ServerFault"
        ELSE "ClientFault"
    ELSE "Unknown"

\* The outcomes of an operation handed to CircuitBreaker.call.
OperationOutcomes ==
    { ResponseOutcome(code) : code \in ResponseCodes }
      \cup { TokenFailure, TransportFailure,
             Raise("ValidationError", {}), Raise("ValueError", {}) }

(***************************************************************************)
(* State.                                                                  *)
(***************************************************************************)
VARIABLES
    \* CircuitBreaker.__init__ parameters
    failure_threshold, recovery_timeout, expected_exception,
    \* CircuitBreaker state tracking
    failure_count, last_failure_time, state,
    \* time.time()
    now,
    \* where the thread is in CircuitBreaker.call, and what the last call delivered
    pc, result,
    \* history of the current (or the last) call of CircuitBreaker.call
    call,
    \* history across calls (halfOpenInvocations stops counting at MaxProbes)
    streak, halfOpenInvocations, lastInvoke, opened, onlySuccess

breakerVars ==
    << failure_threshold, recovery_timeout, expected_exception,
       failure_count, last_failure_time, state, now, pc, result, call,
       streak, halfOpenInvocations, lastInvoke, opened, onlySuccess >>

VARIABLES
    \* retry_on_failure's config
    config,
    \* wrapper's locals: the loop index and last_exception
    attempt, last_exception,
    \* where the thread is in wrapper, and what the last call of it delivered
    wpc, wresult,
    \* history of the current (or the last) call of wrapper: the invocations of the
    \* wrapped function, the time.sleep() durations, what the last invocation
    \* delivered, and whether every invocation raised an error should_retry accepts
    invocations, sleeps, lastObserved, allRetryable

retryVars ==
    << config, attempt, last_exception, wpc, wresult,
       invocations, sleeps, lastObserved, allRetryable >>

VARIABLES
    \* a UnifiedCatalogConfig instance (the fields validate and get_retry_config read)
    ucfg,
    \* where `config` comes from: "direct" (RetryConfig(...) called by the user), or
    \* the stage of ConfigManager._create_config_from_dict followed by get_retry_config
    cpc

configVars == << ucfg, cpc >>

VARIABLES
    \* the settings of the config file find_config_file finds (None: no file), and
    \* the PURVIEW_* / AZURE_* environment variables, by config key
    config_file, environ,
    \* load_default's local config_data, where the thread is in load_default, and
    \* what load_default delivered
    config_data, lpc, lresult

loadVars == << config_file, environ, config_data, lpc, lresult >>

VARIABLES
    \* threads sharing one CircuitBreaker, each making one call: where each is in
    \* call / _on_success / _on_failure, what its operation delivered, and the
    \* failure_count it has loaded for "self.failure_count += 1"
    tpc, tout, tloaded

threadVars == << tpc, tout, tloaded >>

VARIABLES
    \* ApiClient's self.retry_config
    retry_config

clientVars == << retry_config >>

vars == << breakerVars, retryVars, configVars, loadVars, threadVars, clientVars >>

DefaultExpectedException == "APIError"
ExpectedChoices == { DefaultExpectedException, "UnifiedCatalogError", "Exception" }

NoCall ==
    [ entryState |-> "CLOSED", entryCount |-> 0, entryLft |-> None, entryTime |-> 0,
      entryStreak |-> 0, invoked |-> FALSE, invokeState |-> "CLOSED", gap |-> None,
      outcome |-> NoOutcome, endTime |-> 0, done |-> FALSE ]

\* CircuitBreaker.__init__, and the histories before the first call.
BreakerInit ==
    /\ failure_threshold \in 1..MaxThreshold
    /\ recovery_timeout \in 0..MaxTimeout
    /\ expected_exception \in ExpectedChoices
    /\ failure_count = 0
    /\ last_failure_time = None
    /\ state = "CLOSED"
    /\ now = 0
    /\ pc = "idle"
    /\ result = NoOutcome
    /\ call = NoCall
    /\ streak = 0
    /\ halfOpenInvocations = 0
    /\ lastInvoke = None
    /\ opened = FALSE
    /\ onlySuccess = TRUE

(***************************************************************************)
(* CircuitBreaker                                                          *)
(***************************************************************************)
should_attempt_reset_strict ==
    IF last_failure_time = None THEN TRUE
    ELSE now - last_failure_time[1] > recovery_timeout

should_attempt_reset_always == TRUE

should_attempt_reset_never == FALSE

\* CircuitBreaker._should_attempt_reset
should_attempt_reset ==
    IF last_failure_time = None THEN TRUE
    ELSE now - last_failure_time[1] >= recovery_timeout

on_success_keeps_count ==
    /\ state' = "CLOSED"
    /\ UNCHANGED << failure_count, last_failure_time >>

on_success_clears_time ==
    /\ failure_count' = 0
    /\ state' = "CLOSED"
    /\ last_failure_time' = None

\* CircuitBreaker._on_success
on_success ==
    /\ failure_count' = 0
    /\ state' = "CLOSED"
    /\ UNCHANGED last_failure_time

on_failure_off_by_one ==
    /\ failure_count' = failure_count + 1
    /\ last_failure_time' = Some(now)
    /\ state' = IF failure_count + 1 > failure_threshold THEN "OPEN" ELSE state

on_failure_always_opens ==
    /\ failure_count' = failure_count + 1
    /\ last_failure_time' = Some(now)
    /\ state' = "OPEN"

\* CircuitBreaker._on_failure
on_failure ==
    /\ failure_count' = failure_count + 1
    /\ last_failure_time' = Some(now)
    /\ state' = IF failure_count + 1 >= failure_threshold THEN "OPEN" ELSE state

Delivered_wrapped(out) ==
    IF out.kind = "raise" /\ state' = "OPEN" THEN CircuitOpenRejection ELSE out

\* CircuitBreaker.call, lines 202 and 205: "return result" and the bare "raise".
Delivered(out) == out

\* History: the call is entered in the current state.
Entered ==
    [ NoCall EXCEPT !.entryState = state, !.entryCount = failure_count,
                    !.entryLft = last_failure_time, !.entryTime = now,
                    !.entryStreak = streak ]

\* History: the operation is invoked (line 200) with the breaker in state st.
Invoked(st) ==
    /\ call' = [ Entered EXCEPT !.invoked = TRUE, !.invokeState = st,
                   !.gap = IF opened /\ lastInvoke # None
                           THEN Some(now - lastInvoke[1]) ELSE None ]
    /\ halfOpenInvocations' =
           IF st # "HALF_OPEN" THEN 0
           ELSE IF halfOpenInvocations < MaxProbes THEN halfOpenInvocations + 1
           ELSE halfOpenInvocations
    /\ lastInvoke' = Some(now)
    /\ UNCHANGED << streak, opened, onlySuccess >>

\* History: the call ends, the operation having delivered out.
Ended(out) ==
    /\ call' = [ call EXCEPT !.outcome = out, !.endTime = now, !.done = TRUE ]
    /\ halfOpenInvocations' = IF state' = "HALF_OPEN" THEN halfOpenInvocations ELSE 0

\* A rejection that counts as a failure time.
CallRejected_restamps ==
    /\ pc = "idle"
    /\ state = "OPEN"
    /\ ~ should_attempt_reset
    /\ result' = CircuitOpenRejection
    /\ call' = [ Entered EXCEPT !.endTime = now, !.done = TRUE ]
    /\ onlySuccess' = FALSE
    /\ last_failure_time' = Some(now)
    /\ UNCHANGED << failure_threshold, recovery_timeout, expected_exception,
                    failure_count, state, now, pc,
                    streak, halfOpenInvocations, lastInvoke, opened >>

\* CircuitBreaker.call, lines 193-197: OPEN and not yet time to reset.
CallRejected ==
    /\ pc = "idle"
    /\ state = "OPEN"
    /\ ~ should_attempt_reset
    /\ result' = CircuitOpenRejection
    /\ call' = [ Entered EXCEPT !.endTime = now, !.done = TRUE ]
    /\ onlySuccess' = FALSE
    /\ UNCHANGED << failure_threshold, recovery_timeout, expected_exception,
                    failure_count, last_failure_time, state, now, pc,
                    streak, halfOpenInvocations, lastInvoke, opened >>

\* A call that closes the breaker as soon as it is time to reset.
CallHalfOpen_closes ==
    /\ pc = "idle"
    /\ state = "OPEN"
    /\ should_attempt_reset
    /\ failure_count < MaxFailures
    /\ state' = "CLOSED"
    /\ pc' = "invoke"
    /\ Invoked("CLOSED")
    /\ UNCHANGED << failure_threshold, recovery_timeout, expected_exception,
                    failure_count, last_failure_time, now, result >>

\* CircuitBreaker.call, lines 193-200: OPEN and time to reset; the operation is invoked.
CallHalfOpen ==
    /\ pc = "idle"
    /\ state = "OPEN"
    /\ should_attempt_reset
    /\ failure_count < MaxFailures
    /\ state' = "HALF_OPEN"
    /\ pc' = "invoke"
    /\ Invoked("HALF_OPEN")
    /\ UNCHANGED << failure_threshold, recovery_timeout, expected_exception,
                    failure_count, last_failure_time, now, result >>

\* CircuitBreaker.call, lines 193 and 199-200: not OPEN; the operation is invoked.
CallThrough ==
    /\ pc = "idle"
    /\ state # "OPEN"
    /\ failure_count < MaxFailures
    /\ pc' = "invoke"
    /\ Invoked(state)
    /\ UNCHANGED << failure_threshold, recovery_timeout, expected_exception,
                    failure_count, last_failure_time, state, now, result >>

\* CircuitBreaker.call, lines 200-202: the operation returns.
CallSucceeds(out) ==
    /\ pc = "invoke"
    /\ out.kind = "return"
    /\ on_success
    /\ result' = Delivered(out)
    /\ pc' = "idle"
    /\ Ended(out)
    /\ streak' = 0
    /\ lastInvoke' = None
    /\ opened' = FALSE
    /\ UNCHANGED << failure_threshold, recovery_timeout, expected_exception, now,
                    onlySuccess >>

\* CircuitBreaker.call, lines 203-205: the operation raises an expected_exception.
CallFails(out) ==
    /\ pc = "invoke"
    /\ out.kind = "raise"
    /\ IsInstance(out, expected_exception)
    /\ on_failure
    /\ result' = Delivered(out)
    /\ pc' = "idle"
    /\ Ended(out)
    /\ streak' = IF streak >= 0 THEN streak + 1 ELSE streak
    /\ opened' = (opened \/ state' = "OPEN")
    /\ onlySuccess' = FALSE
    /\ UNCHANGED << failure_threshold, recovery_timeout, expected_exception, now,
                    lastInvoke >>

\* CircuitBreaker.call, line 203 not matching: any other exception propagates.
CallPropagates(out) ==
    /\ pc = "invoke"
    /\ out.kind = "raise"
    /\ ~ IsInstance(out, expected_exception)
    /\ UNCHANGED << failure_threshold, recovery_timeout, expected_exception,
                    failure_count, last_failure_time, state, now,
                    lastInvoke, opened >>
    /\ result' = Delivered(out)
    /\ pc' = "idle"
    /\ Ended(out)
    /\ streak' = -1
    /\ onlySuccess' = FALSE

\* The operation handed to call() delivers one of its outcomes.
OperationReturns == \E out \in OperationOutcomes : CallSucceeds(out)
OperationRaisesCounted == \E out \in OperationOutcomes : CallFails(out)
OperationRaisesOther == \E out \in OperationOutcomes : CallPropagates(out)

\* time.time() advances, between calls and while the operation runs.
Tick ==
    /\ now < MaxTime
    /\ now' = now + 1
    /\ UNCHANGED << failure_threshold, recovery_timeout, expected_exception,
                    failure_count, last_failure_time, state, pc, result, call,
                    streak, halfOpenInvocations, lastInvoke, opened, onlySuccess >>

(***************************************************************************)
(* RetryConfig, should_retry, calculate_delay.  Durations are in ticks of  *)
(* 0.1 s; the configured delays are whole seconds, so that the 10% jitter  *)
(* range of a delay is a whole number of ticks.                            *)
(***************************************************************************)
DefaultNonRetryableStatusCodes == {400, 401, 403, 404, 422}

\* RetryConfig.__init__ defaults
DefaultRetryConfig ==
    [ max_attempts |-> 3, base_delay |-> 10, max_delay |-> 600,
      exponential_base |-> 2, jitter |-> TRUE,
      retryable_exceptions |-> {"APIError"},
      non_retryable_status_codes |-> DefaultNonRetryableStatusCodes ]

\* RetryConfig.__init__ stores what it is given, unchecked.
RetryConfigs ==
    [ max_attempts : 0..MaxAttempts,
      base_delay : {0, 10},
      max_delay : {10, 30},
      exponential_base : {1, 2},
      jitter : BOOLEAN,
      retryable_exceptions : { {"APIError"}, {"APIError", "AuthenticationError"},
                               {"Exception"} },
      non_retryable_status_codes : { DefaultNonRetryableStatusCodes, {} } ]

\* A should_retry without the rule for authentication errors.
should_retry_without_authentication_rule(e, cfg) ==
    IF ~ (\E c \in cfg.retryable_exceptions : IsInstance(e, c)) THEN FALSE
    ELSE IF IsInstance(e, "APIError") /\ e.status # {}
            /\ e.status \subseteq cfg.non_retryable_status_codes THEN FALSE
    ELSE TRUE

\* A should_retry that does not look at the status code.
should_retry_without_status_rule(e, cfg) ==
    IF ~ (\E c \in cfg.retryable_exceptions : IsInstance(e, c)) THEN FALSE
    ELSE IF IsInstance(e, "AuthenticationError") THEN FALSE
    ELSE TRUE

\* should_retry
should_retry(e, cfg) ==
    IF ~ (\E c \in cfg.retryable_exceptions : IsInstance(e, c)) THEN FALSE
    ELSE IF IsInstance(e, "APIError") /\ e.status # {}
            /\ e.status \subseteq cfg.non_retryable_status_codes THEN FALSE
    ELSE IF IsInstance(e, "AuthenticationError") THEN FALSE
    ELSE TRUE

RECURSIVE Pow(_, _)
Pow(b, n) == IF n = 0 THEN 1 ELSE b * Pow(b, n - 1)

Min(a, b) == IF a <= b THEN a ELSE b
Max(a, b) == IF a >= b THEN a ELSE b

\* A calculate_delay whose exponent is the attempt number itself.
calculate_delay_exponent_attempt(att, cfg) ==
    IF att = 0 THEN {0}
    ELSE LET delay == Min(cfg.base_delay * Pow(cfg.exponential_base, att),
                          cfg.max_delay)
             jitter_range == delay \div 10
         IN IF cfg.jitter
            THEN { Max(0, delay + j) : j \in (0 - jitter_range)..jitter_range }
            ELSE { Max(0, delay) }

\* A calculate_delay whose jitter is a fifth of the delay.
calculate_delay_wide_jitter(att, cfg) ==
    IF att = 0 THEN {0}
    ELSE LET delay == Min(cfg.base_delay * Pow(cfg.exponential_base, att - 1),
                          cfg.max_delay)
             jitter_range == delay \div 5
         IN IF cfg.jitter
            THEN { Max(0, delay + j) : j \in (0 - jitter_range)..jitter_range }
            ELSE { Max(0, delay) }

\* calculate_delay: the values it can return (one without jitter; with jitter,
\* random.uniform picks any value of the range, here any whole tick of it).
calculate_delay(att, cfg) ==
    IF att = 0 THEN {0}
    ELSE LET delay == Min(cfg.base_delay * Pow(cfg.exponential_base, att - 1),
                          cfg.max_delay)
             jitter_range == delay \div 10
         IN IF cfg.jitter
            THEN { Max(0, delay + j) : j \in (0 - jitter_range)..jitter_range }
            ELSE { Max(0, delay) }

(***************************************************************************)
(* retry_on_failure(config)(func): wrapper                                 *)
(***************************************************************************)
\* What the wrapped function can deliver on one invocation.
FunctionOutcomes == OperationOutcomes \cup { Raise("KeyboardInterrupt", {}) }

RetryIdle ==
    /\ attempt = 0
    /\ last_exception = None
    /\ wpc = "idle"
    /\ wresult = NoOutcome
    /\ invocations = 0
    /\ sleeps = <<>>
    /\ lastObserved = NoOutcome
    /\ allRetryable = TRUE

RetryInit ==
    /\ config \in RetryConfigs
    /\ RetryIdle

AfterLoop_placeholder(le) == Raise("RuntimeError", {})

\* wrapper, lines 138-143: after the loop.
AfterLoop(le) == IF le # None THEN le[1] ELSE Raise("RuntimeError", {})

\* wrapper, line 110: the wrapped function is called.
WrapperCalled ==
    /\ wpc \in {"idle", "done"}
    /\ wpc' = "loop"
    /\ attempt' = 0
    /\ last_exception' = None
    /\ wresult' = NoOutcome
    /\ invocations' = 0
    /\ sleeps' = <<>>
    /\ lastObserved' = NoOutcome
    /\ allRetryable' = TRUE
    /\ UNCHANGED config

\* wrapper, lines 115-121: the delay, the sleep, and func is invoked and delivers out.
Attempted(d, out) ==
    /\ wpc = "loop"
    /\ attempt \in 0..(config.max_attempts - 1)
    /\ d \in calculate_delay(attempt, config)
    /\ sleeps' = IF d > 0 THEN Append(sleeps, d) ELSE sleeps
    /\ invocations' = invocations + 1
    /\ lastObserved' = out
    /\ allRetryable' = (allRetryable /\ out.kind = "raise" /\ should_retry(out, config))
    /\ UNCHANGED config

\* A wrapper that treats a returned value as one more failed attempt.
AttemptReturns_continues ==
    \E out \in FunctionOutcomes, d \in calculate_delay(attempt, config) :
        /\ Attempted(d, out)
        /\ out.kind = "return"
        /\ IF attempt = config.max_attempts - 1
              THEN wresult' = out /\ wpc' = "done" /\ attempt' = attempt
              ELSE attempt' = attempt + 1 /\ UNCHANGED << wpc, wresult >>
        /\ UNCHANGED last_exception

\* wrapper, line 121: func returns.
AttemptReturns ==
    \E out \in FunctionOutcomes, d \in calculate_delay(attempt, config) :
        /\ Attempted(d, out)
        /\ out.kind = "return"
        /\ wresult' = out
        /\ wpc' = "done"
        /\ UNCHANGED << attempt, last_exception >>

\* wrapper, line 123 not matching: what is no Exception propagates.
AttemptRaisesBaseException ==
    \E out \in FunctionOutcomes, d \in calculate_delay(attempt, config) :
        /\ Attempted(d, out)
        /\ out.kind = "raise"
        /\ ~ IsInstance(out, "Exception")
        /\ wresult' = out
        /\ wpc' = "done"
        /\ UNCHANGED << attempt, last_exception >>

\* A wrapper that goes on to the next attempt after an exception should_retry refuses.
AttemptRaisesNonRetryable_swallowed ==
    \E out \in FunctionOutcomes, d \in calculate_delay(attempt, config) :
        /\ Attempted(d, out)
        /\ out.kind = "raise"
        /\ IsInstance(out, "Exception")
        /\ ~ should_retry(out, config)
        /\ last_exception' = Some(out)
        /\ IF attempt = config.max_attempts - 1
              THEN wresult' = out /\ wpc' = "done" /\ attempt' = attempt
              ELSE attempt' = attempt + 1 /\ UNCHANGED << wpc, wresult >>

\* wrapper, lines 123-129: an exception should_retry refuses is raised again.
AttemptRaisesNonRetryable ==
    \E out \in FunctionOutcomes, d \in calculate_delay(attempt, config) :
        /\ Attempted(d, out)
        /\ out.kind = "raise"
        /\ IsInstance(out, "Exception")
        /\ ~ should_retry(out, config)
        /\ last_exception' = Some(out)
        /\ wresult' = out
        /\ wpc' = "done"
        /\ UNCHANGED attempt

\* A wrapper that sleeps once more after the last attempt has failed.
AttemptRaisesFinal_sleeps ==
    \E out \in FunctionOutcomes, d \in calculate_delay(attempt, config),
       after \in calculate_delay(attempt + 1, config) :
        /\ wpc = "loop"
        /\ attempt \in 0..(config.max_attempts - 1)
        /\ sleeps' = Append(IF d > 0 THEN Append(sleeps, d) ELSE sleeps, after)
        /\ invocations' = invocations + 1
        /\ lastObserved' = out
        /\ allRetryable' = (allRetryable /\ out.kind = "raise" /\ should_retry(out, config))
        /\ out.kind = "raise"
        /\ IsInstance(out, "Exception")
        /\ should_retry(out, config)
        /\ attempt = config.max_attempts - 1
        /\ last_exception' = Some(out)
        /\ wresult' = AfterLoop(last_exception')
        /\ wpc' = "done"
        /\ UNCHANGED << attempt, config >>

\* wrapper, lines 123-134 and 138-140: the last attempt fails; break, raise.
AttemptRaisesFinal ==
    \E out \in FunctionOutcomes, d \in calculate_delay(attempt, config) :
        /\ Attempted(d, out)
        /\ out.kind = "raise"
        /\ IsInstance(out, "Exception")
        /\ should_retry(out, config)
        /\ attempt = config.max_attempts - 1
        /\ last_exception' = Some(out)
        /\ wresult' = AfterLoop(last_exception')
        /\ wpc' = "done"
        /\ UNCHANGED attempt

\* wrapper, lines 123-136: an earlier attempt fails; on to the next one.
AttemptRaisesRetryable ==
    \E out \in FunctionOutcomes, d \in calculate_delay(attempt, config) :
        /\ Attempted(d, out)
        /\ out.kind = "raise"
        /\ IsInstance(out, "Exception")
        /\ should_retry(out, config)
        /\ attempt # config.max_attempts - 1
        /\ last_exception' = Some(out)
        /\ attempt' = attempt + 1
        /\ UNCHANGED << wpc, wresult >>

\* wrapper, lines 112 and 138-143: range(config.max_attempts) is exhausted
\* without a break, which happens only when it is empty.
LoopExhausted ==
    /\ wpc = "loop"
    /\ attempt \notin 0..(config.max_attempts - 1)
    /\ wresult' = AfterLoop(last_exception)
    /\ wpc' = "done"
    /\ UNCHANGED << config, attempt, last_exception,
                    invocations, sleeps, lastObserved, allRetryable >>

(***************************************************************************)
(* config.py: UnifiedCatalogConfig, validate and get_retry_config.         *)
(* Durations are in ticks of 0.1 s, as in RetryConfig.                     *)
(***************************************************************************)
\* UnifiedCatalogConfig(account_id="acct"): the dataclass defaults.
DefaultUnifiedCatalogConfig ==
    [ account_id |-> "acct",
      default_page_size |-> 100, max_page_size |-> 1000,
      max_retry_attempts |-> 3, retry_base_delay |-> 10, retry_max_delay |-> 600 ]

\* The dataclass stores what it is given, unchecked.
UnifiedCatalogConfigs ==
    [ account_id : {"", "acct"},
      default_page_size : {0, 100},
      max_page_size : {50, 1000},
      max_retry_attempts : (0 - 1)..MaxAttempts,
      retry_base_delay : {0 - 10, 0, 10},
      retry_max_delay : {10, 30} ]

\* UnifiedCatalogConfig.validate: the ValidationError it raises, or NoOutcome.
validate(uc) ==
    IF uc.account_id = "" THEN Raise("ValidationError", {})
    ELSE IF uc.default_page_size <= 0 THEN Raise("ValidationError", {})
    ELSE IF uc.default_page_size > uc.max_page_size THEN Raise("ValidationError", {})
    ELSE IF uc.max_retry_attempts < 0 THEN Raise("ValidationError", {})
    ELSE IF uc.retry_base_delay < 0 THEN Raise("ValidationError", {})
    ELSE NoOutcome

\* UnifiedCatalogConfig.get_retry_config: RetryConfig(max_attempts=..., base_delay=...,
\* max_delay=...), the other parameters at their defaults.
get_retry_config(uc) ==
    [ DefaultRetryConfig EXCEPT !.max_attempts = uc.max_retry_attempts,
                                !.base_delay = uc.retry_base_delay,
                                !.max_delay = uc.retry_max_delay ]

\* The RetryConfig in use was made by calling RetryConfig(...) directly.
ConfigDirect ==
    /\ ucfg = DefaultUnifiedCatalogConfig
    /\ cpc = "direct"

\* _create_config_from_dict, lines 255-257: validate returns, the config is handed out.
ConfigValidated ==
    /\ cpc = "new"
    /\ validate(ucfg) = NoOutcome
    /\ cpc' = "valid"
    /\ UNCHANGED ucfg

\* _create_config_from_dict, line 256: validate raises ValidationError.
ConfigRejected ==
    /\ cpc = "new"
    /\ validate(ucfg) # NoOutcome
    /\ cpc' = "rejected"
    /\ UNCHANGED ucfg

\* get_retry_config is called on the validated config and the RetryConfig it
\* returns is given to retry_on_failure.
RetryConfigBuilt ==
    /\ cpc = "valid"
    /\ config' = get_retry_config(ucfg)
    /\ cpc' = "built"
    /\ UNCHANGED << ucfg, attempt, last_exception, wpc, wresult,
                    invocations, sleeps, lastObserved, allRetryable >>

(***************************************************************************)
(* config.py: ConfigManager.load_default.  A set of settings maps every    *)
(* config key to None or to Some(value); so does a UnifiedCatalogConfig    *)
(* instance, whose to_dict() is that mapping.                              *)
(***************************************************************************)
LoadFields ==
    { "account_id", "tenant_id", "default_page_size", "max_page_size",
      "max_retry_attempts", "retry_base_delay", "retry_max_delay" }

\* The dataclass default of a field: account_id has none, tenant_id's is None.
FieldDefault(f) ==
    IF f \in {"account_id", "tenant_id"} THEN None
    ELSE Some(DefaultUnifiedCatalogConfig[f])

NoSettings == [ f \in LoadFields |-> None ]

\* The settings that give the keys of c and no other key.
Settings(c) == [ f \in LoadFields |-> IF f \in DOMAIN c THEN c[f] ELSE None ]

\* What a config file may hold; max_page_size 50 is below default_page_size.
FileContents ==
    { Settings(c) : c \in [ account_id : {None, Some("file_acct")},
                            tenant_id : {None, Some("file_tenant")},
                            max_retry_attempts : {None, Some(5)},
                            max_page_size : {None, Some(50)} ] }

\* What the environment may hold: strings.
Environments ==
    { Settings(c) : c \in [ account_id : {None, Some("env_acct")},
                            tenant_id : {None, Some("env_tenant")},
                            max_retry_attempts : {None, Some("2")} ] }

\* int(value), for the strings of Environments.
ParseInt(str) == IF str = "2" THEN 2 ELSE 0

\* _create_config_from_dict: None values are dropped, UnifiedCatalogConfig(**data)
\* raises TypeError without account_id and fills in the defaults, validate may
\* raise; otherwise the instance is returned.
create_config_from_dict(data) ==
    IF data["account_id"] = None
    THEN [ raised |-> Some(Raise("TypeError", {})), instance |-> None ]
    ELSE LET inst == [ f \in LoadFields |->
                         IF data[f] # None THEN data[f] ELSE FieldDefault(f) ]
             plain == [ f \in LoadFields \ {"tenant_id"} |-> inst[f][1] ]
         IN IF validate(plain) # NoOutcome
            THEN [ raised |-> Some(validate(plain)), instance |-> None ]
            ELSE [ raised |-> None, instance |-> Some(inst) ]

\* from_file, for a file that exists and parses.
from_file(contents) == create_config_from_dict(contents)

\* from_env: the variables that are set, converted to the type of their key.
from_env(env) ==
    create_config_from_dict(
        [ f \in LoadFields |->
            IF env[f] = None THEN None
            ELSE IF f = "max_retry_attempts" THEN Some(ParseInt(env[f][1]))
            ELSE env[f] ])

\* dict.update with the entries of d2 that are not None.
UpdateNotNone(d1, d2) ==
    [ f \in LoadFields |-> IF d2[f] # None THEN d2[f] ELSE d1[f] ]

NotLoaded == [ raised |-> None, instance |-> None ]

\* No load_default is running.
LoadIdle ==
    /\ config_file = None
    /\ environ = NoSettings
    /\ config_data = NoSettings
    /\ lpc = "idle"
    /\ lresult = NotLoaded

\* load_default, lines 193-197: find_config_file finds nothing.
FileNotFound ==
    /\ lpc = "start"
    /\ config_file = None
    /\ config_data' = NoSettings
    /\ lpc' = "file"
    /\ UNCHANGED << config_file, environ, lresult >>

\* load_default, lines 196-200: the file loads; config_data.update(file_config.to_dict()).
FileLoaded ==
    /\ lpc = "start"
    /\ config_file # None
    /\ from_file(config_file[1]).raised = None
    /\ config_data' = from_file(config_file[1]).instance[1]
    /\ lpc' = "file"
    /\ UNCHANGED << config_file, environ, lresult >>

\* load_default, lines 198-202: from_file raises; the file is ignored.
FileIgnored ==
    /\ lpc = "start"
    /\ config_file # None
    /\ from_file(config_file[1]).raised # None
    /\ config_data' = NoSettings
    /\ lpc' = "file"
    /\ UNCHANGED << config_file, environ, lresult >>

\* load_default, line 205: from_env raises, and so does load_default.
EnvRaises ==
    /\ lpc = "file"
    /\ from_env(environ).raised # None
    /\ lresult' = from_env(environ)
    /\ lpc' = "done"
    /\ UNCHANGED << config_file, environ, config_data >>

\* load_default, lines 205-206: config_data.update with what env_config.to_dict()
\* holds that is not None.
EnvMerged ==
    /\ lpc = "file"
    /\ from_env(environ).raised = None
    /\ config_data' = UpdateNotNone(config_data, from_env(environ).instance[1])
    /\ lpc' = "env"
    /\ UNCHANGED << config_file, environ, lresult >>

\* load_default, line 208: return cls._create_config_from_dict(config_data).
ConfigCreated ==
    /\ lpc = "env"
    /\ lresult' = create_config_from_dict(config_data)
    /\ lpc' = "done"
    /\ UNCHANGED << config_file, environ, config_data >>

(***************************************************************************)
(* api_client.py: ApiClient.request, a CircuitBreaker() around             *)
(* _request_with_retry, which retry_on_failure() wraps with its default    *)
(* RetryConfig.  The client has its breaker (enable_circuit_breaker=True). *)
(* Durations are in ticks of 0.1 s.                                        *)
(***************************************************************************)
\* CircuitBreaker.__init__ defaults: failure_threshold, recovery_timeout (60.0 s).
DefaultFailureThreshold == 5
DefaultRecoveryTimeout == 600

\* ApiClient.__init__, line 13, when no retry_config is passed:
\* self.retry_config = RetryConfig().
ClientDefault == retry_config = DefaultRetryConfig

\* ApiClient.__init__, line 13: what self.retry_config can be, the default or a
\* RetryConfig the caller passed (here one that allows a single attempt, lists
\* every Exception and refuses no status code).
ClientRetryConfigs ==
    { DefaultRetryConfig,
      [ max_attempts |-> 1, base_delay |-> 0, max_delay |-> 10,
        exponential_base |-> 1, jitter |-> FALSE,
        retryable_exceptions |-> {"Exception"},
        non_retryable_status_codes |-> {} ] }

\* A wrapper that follows the instance's self.retry_config.
DecoratorConfig_instance == retry_config

\* api_client.py line 28 and retry_on_failure lines 104-105: @retry_on_failure()
\* passes no config, so the wrapper closes over RetryConfig().
DecoratorConfig == DefaultRetryConfig

\* The time spent in requests: the idle periods are of recovery_timeout each.
BusyTime == now % recovery_timeout

\* What the attempt just made has slept before invoking the function.
Slept == IF Len(sleeps') > Len(sleeps) THEN sleeps'[Len(sleeps')] ELSE 0

\* A pipeline in which every failed attempt is counted by the breaker.
BreakerDuringAttempts_counted ==
    /\ failure_count' = IF lastObserved'.kind = "raise" THEN failure_count + 1
                        ELSE failure_count
    /\ UNCHANGED << last_failure_time, state >>

\* CircuitBreaker.call, line 200: while func, the wrapper, runs its attempts the
\* breaker's bookkeeping is not reached.
BreakerDuringAttempts == UNCHANGED << failure_count, last_failure_time, state >>

\* An attempt of the wrapper inside CircuitBreaker.call: time.sleep advances the
\* clock, the rest of the breaker is as it was.
DuringRequest ==
    /\ pc = "invoke"
    /\ now' = now + Slept
    /\ BreakerDuringAttempts
    /\ UNCHANGED << failure_threshold, recovery_timeout, expected_exception,
                    pc, result, call, streak, halfOpenInvocations, lastInvoke,
                    opened, onlySuccess >>

\* request, lines 23-24, call lines 193-197: the breaker rejects the request.
RequestRejected == CallRejected /\ UNCHANGED retryVars

\* request, lines 23-24, call lines 193-200: OPEN and time to reset; the wrapper is called.
RequestHalfOpen ==
    /\ pc = "idle"
    /\ state = "OPEN"
    /\ should_attempt_reset
    /\ failure_count < MaxClientFailures
    /\ BusyTime < MaxClientTime
    /\ state' = "HALF_OPEN"
    /\ pc' = "invoke"
    /\ Invoked("HALF_OPEN")
    /\ UNCHANGED << failure_threshold, recovery_timeout, expected_exception,
                    failure_count, last_failure_time, now, result >>
    /\ WrapperCalled

\* request, lines 23-24, call lines 193 and 199-200: not OPEN; the wrapper is called.
RequestThrough ==
    /\ pc = "idle"
    /\ state # "OPEN"
    /\ failure_count < MaxClientFailures
    /\ BusyTime < MaxClientTime
    /\ pc' = "invoke"
    /\ Invoked(state)
    /\ UNCHANGED << failure_threshold, recovery_timeout, expected_exception,
                    failure_count, last_failure_time, state, now, result >>
    /\ WrapperCalled

\* call, lines 200-202: the wrapper has returned.
RequestReturns == wpc = "done" /\ CallSucceeds(wresult) /\ UNCHANGED retryVars

\* call, lines 203-205: the wrapper has raised an expected_exception.
RequestFails == wpc = "done" /\ CallFails(wresult) /\ UNCHANGED retryVars

\* A breaker that counts every exception of the wrapper as a failure.
RequestPropagates_counted ==
    /\ wpc = "done"
    /\ pc = "invoke"
    /\ wresult.kind = "raise"
    /\ ~ IsInstance(wresult, expected_exception)
    /\ on_failure
    /\ result' = Delivered(wresult)
    /\ pc' = "idle"
    /\ Ended(wresult)
    /\ streak' = -1
    /\ opened' = (opened \/ state' = "OPEN")
    /\ onlySuccess' = FALSE
    /\ UNCHANGED << failure_threshold, recovery_timeout, expected_exception, now,
                    lastInvoke >>
    /\ UNCHANGED retryVars

\* call, line 203 not matching: the wrapper has raised any other exception.
RequestPropagates == wpc = "done" /\ CallPropagates(wresult) /\ UNCHANGED retryVars

\* Between requests the client is idle for recovery_timeout.
Elapse ==
    /\ pc = "idle"
    /\ now \div recovery_timeout < MaxIdlePeriods
    /\ now' = now + recovery_timeout
    /\ UNCHANGED << failure_threshold, recovery_timeout, expected_exception,
                    failure_count, last_failure_time, state, pc, result, call,
                    streak, halfOpenInvocations, lastInvoke, opened, onlySuccess >>

(***************************************************************************)
(* CircuitBreaker shared by threads.  The class holds no lock; every step  *)
(* below is one the interpreter can run without switching threads, and     *)
(* "self.failure_count += 1" is a load followed by a store.                *)
(***************************************************************************)
Threads == 1..MaxThreads

\* What the operation of a thread delivers.
ThreadOutcomes == { Return({200}), Raise("APIError", {500}), Raise("ValueError", {}) }

ThreadsIdle ==
    /\ tpc = [ t \in Threads |-> "idle" ]
    /\ tout = [ t \in Threads |-> NoOutcome ]
    /\ tloaded = [ t \in Threads |-> 0 ]

\* The part of the breaker no thread step changes.
ThreadFrame ==
    UNCHANGED << failure_threshold, recovery_timeout, expected_exception, now,
                 pc, result, call, streak, halfOpenInvocations, lastInvoke,
                 opened, onlySuccess >>

\* call, lines 193-197: OPEN and not yet time to reset.
ThreadRejected(t) ==
    /\ tpc[t] = "idle"
    /\ state = "OPEN"
    /\ ~ should_attempt_reset
    /\ tpc' = [ tpc EXCEPT ![t] = "done" ]
    /\ tout' = [ tout EXCEPT ![t] = CircuitOpenRejection ]
    /\ UNCHANGED << failure_count, last_failure_time, state, tloaded >>
    /\ ThreadFrame

\* call, lines 193-195: OPEN and time to reset.
ThreadHalfOpen(t) ==
    /\ tpc[t] = "idle"
    /\ state = "OPEN"
    /\ should_attempt_reset
    /\ state' = "HALF_OPEN"
    /\ tpc' = [ tpc EXCEPT ![t] = "invoke" ]
    /\ UNCHANGED << failure_count, last_failure_time, tout, tloaded >>
    /\ ThreadFrame

\* call, line 193: not OPEN.
ThreadThrough(t) ==
    /\ tpc[t] = "idle"
    /\ state # "OPEN"
    /\ tpc' = [ tpc EXCEPT ![t] = "invoke" ]
    /\ UNCHANGED << failure_count, last_failure_time, state, tout, tloaded >>
    /\ ThreadFrame

\* call, lines 199-205: func returns, raises expected_exception, or raises
\* something else, which propagates.
ThreadOperationEnds(t) ==
    /\ tpc[t] = "invoke"
    /\ \E out \in ThreadOutcomes :
          /\ tout' = [ tout EXCEPT ![t] = out ]
          /\ tpc' = [ tpc EXCEPT ![t] =
                        IF out.kind = "return" THEN "success"
                        ELSE IF IsInstance(out, expected_exception) THEN "failure"
                        ELSE "done" ]
    /\ UNCHANGED << failure_count, last_failure_time, state, tloaded >>
    /\ ThreadFrame

\* _on_success, line 215: self.failure_count = 0
ThreadResetsCount(t) ==
    /\ tpc[t] = "success"
    /\ failure_count' = 0
    /\ tpc' = [ tpc EXCEPT ![t] = "close" ]
    /\ UNCHANGED << last_failure_time, state, tout, tloaded >>
    /\ ThreadFrame

\* _on_success, line 216: self.state = "CLOSED"
ThreadCloses(t) ==
    /\ tpc[t] = "close"
    /\ state' = "CLOSED"
    /\ tpc' = [ tpc EXCEPT ![t] = "done" ]
    /\ UNCHANGED << failure_count, last_failure_time, tout, tloaded >>
    /\ ThreadFrame

\* _on_failure, line 220: self.failure_count += 1, the load.
ThreadLoadsCount(t) ==
    /\ tpc[t] = "failure"
    /\ tloaded' = [ tloaded EXCEPT ![t] = failure_count ]
    /\ tpc' = [ tpc EXCEPT ![t] = "loaded" ]
    /\ UNCHANGED << failure_count, last_failure_time, state, tout >>
    /\ ThreadFrame

\* _on_failure, line 220: self.failure_count += 1, the store.
ThreadStoresCount(t) ==
    /\ tpc[t] = "loaded"
    /\ failure_count' = tloaded[t] + 1
    /\ tpc' = [ tpc EXCEPT ![t] = "stored" ]
    /\ UNCHANGED << last_failure_time, state, tout, tloaded >>
    /\ ThreadFrame

\* _on_failure, line 221: self.last_failure_time = time.time()
ThreadStampsTime(t) ==
    /\ tpc[t] = "stored"
    /\ last_failure_time' = Some(now)
    /\ tpc' = [ tpc EXCEPT ![t] = "stamped" ]
    /\ UNCHANGED << failure_count, state, tout, tloaded >>
    /\ ThreadFrame

\* _on_failure, lines 223-224: the threshold is checked.
ThreadChecksThreshold(t) ==
    /\ tpc[t] = "stamped"
    /\ state' = IF failure_count >= failure_threshold THEN "OPEN" ELSE state
    /\ tpc' = [ tpc EXCEPT ![t] = "done" ]
    /\ UNCHANGED << failure_count, last_failure_time, tout, tloaded >>
    /\ ThreadFrame

(***************************************************************************)
(* Specifications.                                                         *)
(***************************************************************************)
\* A CircuitBreaker guarding an operation; no wrapper in use.
Init ==
    /\ BreakerInit
    /\ config = DefaultRetryConfig
    /\ RetryIdle
    /\ ConfigDirect
    /\ LoadIdle
    /\ ThreadsIdle
    /\ ClientDefault

Next ==
    \/ CallRejected /\ UNCHANGED << retryVars, configVars, loadVars, threadVars, clientVars >>
    \/ CallHalfOpen /\ UNCHANGED << retryVars, configVars, loadVars, threadVars, clientVars >>
    \/ CallThrough /\ UNCHANGED << retryVars, configVars, loadVars, threadVars, clientVars >>
    \/ OperationReturns /\ UNCHANGED << retryVars, configVars, loadVars, threadVars, clientVars >>
    \/ OperationRaisesCounted /\ UNCHANGED << retryVars, configVars, loadVars, threadVars, clientVars >>
    \/ OperationRaisesOther /\ UNCHANGED << retryVars, configVars, loadVars, threadVars, clientVars >>
    \/ Tick /\ UNCHANGED << retryVars, configVars, loadVars, threadVars, clientVars >>

Spec == Init /\ [][Next]_vars

\* A function wrapped by retry_on_failure(config); no breaker in use.
InitRetry ==
    /\ RetryInit
    /\ BreakerInit
    /\ failure_threshold = 1
    /\ recovery_timeout = 0
    /\ expected_exception = DefaultExpectedException
    /\ ConfigDirect
    /\ LoadIdle
    /\ ThreadsIdle
    /\ ClientDefault

NextRetry ==
    \/ WrapperCalled /\ UNCHANGED << breakerVars, configVars, loadVars, threadVars, clientVars >>
    \/ AttemptReturns /\ UNCHANGED << breakerVars, configVars, loadVars, threadVars, clientVars >>
    \/ AttemptRaisesBaseException /\ UNCHANGED << breakerVars, configVars, loadVars, threadVars, clientVars >>
    \/ AttemptRaisesNonRetryable /\ UNCHANGED << breakerVars, configVars, loadVars, threadVars, clientVars >>
    \/ AttemptRaisesFinal /\ UNCHANGED << breakerVars, configVars, loadVars, threadVars, clientVars >>
    \/ AttemptRaisesRetryable /\ UNCHANGED << breakerVars, configVars, loadVars, threadVars, clientVars >>
    \/ LoopExhausted /\ UNCHANGED << breakerVars, configVars, loadVars, threadVars, clientVars >>

SpecRetry == InitRetry /\ [][NextRetry]_vars

\* A UnifiedCatalogConfig is created from loaded settings and validated; the
\* RetryConfig it yields configures retry_on_failure; no breaker in use.
InitConfig ==
    /\ ucfg \in UnifiedCatalogConfigs
    /\ cpc = "new"
    /\ LoadIdle
    /\ ThreadsIdle
    /\ ClientDefault
    /\ config = DefaultRetryConfig
    /\ RetryIdle
    /\ BreakerInit
    /\ failure_threshold = 1
    /\ recovery_timeout = 0
    /\ expected_exception = DefaultExpectedException

NextConfig ==
    \/ ConfigValidated /\ UNCHANGED << breakerVars, retryVars, loadVars, threadVars, clientVars >>
    \/ ConfigRejected /\ UNCHANGED << breakerVars, retryVars, loadVars, threadVars, clientVars >>
    \/ RetryConfigBuilt /\ UNCHANGED << breakerVars, loadVars, threadVars, clientVars >>
    \/ cpc = "built" /\ WrapperCalled /\ UNCHANGED << breakerVars, configVars, loadVars, threadVars, clientVars >>
    \/ cpc = "built" /\ AttemptReturns /\ UNCHANGED << breakerVars, configVars, loadVars, threadVars, clientVars >>
    \/ cpc = "built" /\ AttemptRaisesBaseException /\ UNCHANGED << breakerVars, configVars, loadVars, threadVars, clientVars >>
    \/ cpc = "built" /\ AttemptRaisesNonRetryable /\ UNCHANGED << breakerVars, configVars, loadVars, threadVars, clientVars >>
    \/ cpc = "built" /\ AttemptRaisesFinal /\ UNCHANGED << breakerVars, configVars, loadVars, threadVars, clientVars >>
    \/ cpc = "built" /\ AttemptRaisesRetryable /\ UNCHANGED << breakerVars, configVars, loadVars, threadVars, clientVars >>
    \/ cpc = "built" /\ LoopExhausted /\ UNCHANGED << breakerVars, configVars, loadVars, threadVars, clientVars >>

SpecConfig == InitConfig /\ [][NextConfig]_vars

\* An ApiClient with its circuit breaker: pipeline of request.
InitClient ==
    /\ failure_threshold = DefaultFailureThreshold
    /\ recovery_timeout = DefaultRecoveryTimeout
    /\ expected_exception = DefaultExpectedException
    /\ failure_count = 0
    /\ last_failure_time = None
    /\ state = "CLOSED"
    /\ now = 0
    /\ pc = "idle"
    /\ result = NoOutcome
    /\ call = NoCall
    /\ streak = 0
    /\ halfOpenInvocations = 0
    /\ lastInvoke = None
    /\ opened = FALSE
    /\ onlySuccess = TRUE
    /\ config = DefaultRetryConfig
    /\ RetryIdle
    /\ ConfigDirect
    /\ LoadIdle
    /\ ThreadsIdle
    /\ ClientDefault

NextClient ==
    \/ RequestRejected /\ UNCHANGED << configVars, loadVars, threadVars, clientVars >>
    \/ RequestHalfOpen /\ UNCHANGED << configVars, loadVars, threadVars, clientVars >>
    \/ RequestThrough /\ UNCHANGED << configVars, loadVars, threadVars, clientVars >>
    \/ AttemptReturns /\ DuringRequest /\ UNCHANGED << configVars, loadVars, threadVars, clientVars >>
    \/ AttemptRaisesBaseException /\ DuringRequest /\ UNCHANGED << configVars, loadVars, threadVars, clientVars >>
    \/ AttemptRaisesNonRetryable /\ DuringRequest /\ UNCHANGED << configVars, loadVars, threadVars, clientVars >>
    \/ AttemptRaisesFinal /\ DuringRequest /\ UNCHANGED << configVars, loadVars, threadVars, clientVars >>
    \/ AttemptRaisesRetryable /\ DuringRequest /\ UNCHANGED << configVars, loadVars, threadVars, clientVars >>
    \/ RequestReturns /\ UNCHANGED << configVars, loadVars, threadVars, clientVars >>
    \/ RequestFails /\ UNCHANGED << configVars, loadVars, threadVars, clientVars >>
    \/ RequestPropagates /\ UNCHANGED << configVars, loadVars, threadVars, clientVars >>
    \/ Elapse /\ UNCHANGED << retryVars, configVars, loadVars, threadVars, clientVars >>

SpecClient == InitClient /\ [][NextClient]_vars

\* An ApiClient constructed with any retry_config, with its circuit breaker.
InitClientAny ==
    /\ retry_config \in ClientRetryConfigs
    /\ config = DecoratorConfig
    /\ failure_threshold = DefaultFailureThreshold
    /\ recovery_timeout = DefaultRecoveryTimeout
    /\ expected_exception = DefaultExpectedException
    /\ failure_count = 0
    /\ last_failure_time = None
    /\ state = "CLOSED"
    /\ now = 0
    /\ pc = "idle"
    /\ result = NoOutcome
    /\ call = NoCall
    /\ streak = 0
    /\ halfOpenInvocations = 0
    /\ lastInvoke = None
    /\ opened = FALSE
    /\ onlySuccess = TRUE
    /\ RetryIdle
    /\ ConfigDirect
    /\ LoadIdle
    /\ ThreadsIdle

SpecClientAny == InitClientAny /\ [][NextClient]_vars

\* ConfigManager.load_default is called once, with some config file (or none)
\* and some environment.
InitLoad ==
    /\ config_file \in {None} \cup { Some(c) : c \in FileContents }
    /\ environ \in Environments
    /\ config_data = NoSettings
    /\ lpc = "start"
    /\ lresult = NotLoaded
    /\ BreakerInit
    /\ failure_threshold = 1
    /\ recovery_timeout = 0
    /\ expected_exception = DefaultExpectedException
    /\ config = DefaultRetryConfig
    /\ RetryIdle
    /\ ConfigDirect
    /\ ThreadsIdle
    /\ ClientDefault

NextLoad ==
    \/ FileNotFound /\ UNCHANGED << breakerVars, retryVars, configVars, threadVars, clientVars >>
    \/ FileLoaded /\ UNCHANGED << breakerVars, retryVars, configVars, threadVars, clientVars >>
    \/ FileIgnored /\ UNCHANGED << breakerVars, retryVars, configVars, threadVars, clientVars >>
    \/ EnvRaises /\ UNCHANGED << breakerVars, retryVars, configVars, threadVars, clientVars >>
    \/ EnvMerged /\ UNCHANGED << breakerVars, retryVars, configVars, threadVars, clientVars >>
    \/ ConfigCreated /\ UNCHANGED << breakerVars, retryVars, configVars, threadVars, clientVars >>

SpecLoad == InitLoad /\ [][NextLoad]_vars

\* One CircuitBreaker shared by MaxThreads threads, each making one call.
InitThreads ==
    /\ BreakerInit
    /\ expected_exception = DefaultExpectedException
    /\ config = DefaultRetryConfig
    /\ RetryIdle
    /\ ConfigDirect
    /\ LoadIdle
    /\ ThreadsIdle
    /\ ClientDefault

NextThreads ==
    \/ \E t \in Threads : ThreadRejected(t) /\ UNCHANGED << retryVars, configVars, loadVars, clientVars >>
    \/ \E t \in Threads : ThreadHalfOpen(t) /\ UNCHANGED << retryVars, configVars, loadVars, clientVars >>
    \/ \E t \in Threads : ThreadThrough(t) /\ UNCHANGED << retryVars, configVars, loadVars, clientVars >>
    \/ \E t \in Threads : ThreadOperationEnds(t) /\ UNCHANGED << retryVars, configVars, loadVars, clientVars >>
    \/ \E t \in Threads : ThreadResetsCount(t) /\ UNCHANGED << retryVars, configVars, loadVars, clientVars >>
    \/ \E t \in Threads : ThreadCloses(t) /\ UNCHANGED << retryVars, configVars, loadVars, clientVars >>
    \/ \E t \in Threads : ThreadLoadsCount(t) /\ UNCHANGED << retryVars, configVars, loadVars, clientVars >>
    \/ \E t \in Threads : ThreadStoresCount(t) /\ UNCHANGED << retryVars, configVars, loadVars, clientVars >>
    \/ \E t \in Threads : ThreadStampsTime(t) /\ UNCHANGED << retryVars, configVars, loadVars, clientVars >>
    \/ \E t \in Threads : ThreadChecksThreshold(t) /\ UNCHANGED << retryVars, configVars, loadVars, clientVars >>

SpecThreads == InitThreads /\ [][NextThreads]_vars

\* The single-threaded breaker in use for ever: the clock advances, calls keep
\* being made and every invoked operation ends.  So that neither the bound on
\* the clock nor the bound on failure_count stands in the way of a later probe,
\* an operation ends in a counted failure only while recovery_timeout can still
\* elapse before MaxTime and failure_count stays below MaxFailures.
OperationRaisesCountedInTime ==
    /\ now + recovery_timeout <= MaxTime
    /\ failure_count + 1 < MaxFailures
    /\ OperationRaisesCounted

NextLive ==
    \/ CallRejected /\ UNCHANGED << retryVars, configVars, loadVars, threadVars, clientVars >>
    \/ CallHalfOpen /\ UNCHANGED << retryVars, configVars, loadVars, threadVars, clientVars >>
    \/ CallThrough /\ UNCHANGED << retryVars, configVars, loadVars, threadVars, clientVars >>
    \/ OperationReturns /\ UNCHANGED << retryVars, configVars, loadVars, threadVars, clientVars >>
    \/ OperationRaisesCountedInTime /\ UNCHANGED << retryVars, configVars, loadVars, threadVars, clientVars >>
    \/ OperationRaisesOther /\ UNCHANGED << retryVars, configVars, loadVars, threadVars, clientVars >>
    \/ Tick /\ UNCHANGED << retryVars, configVars, loadVars, threadVars, clientVars >>

SpecLive ==
    /\ Init
    /\ [][NextLive]_vars
    /\ WF_vars(Tick /\ UNCHANGED << retryVars, configVars, loadVars, threadVars, clientVars >>)
    /\ WF_vars(/\ CallRejected \/ CallHalfOpen \/ CallThrough
               /\ UNCHANGED << retryVars, configVars, loadVars, threadVars, clientVars >>)
    /\ WF_vars(/\ OperationReturns \/ OperationRaisesCountedInTime \/ OperationRaisesOther
               /\ UNCHANGED << retryVars, configVars, loadVars, threadVars, clientVars >>)

(***************************************************************************)
(* Properties of CircuitBreaker, checked under Spec.                       *)
(***************************************************************************)
\* The call in `call` was entered while OPEN with less than recovery_timeout elapsed.
EnteredBlocked ==
    /\ call.entryState = "OPEN"
    /\ call.entryLft # None
    /\ call.entryTime - call.entryLft[1] < recovery_timeout

\* The call in `call` was entered while OPEN with at least recovery_timeout elapsed.
EnteredEligible ==
    /\ call.entryState = "OPEN"
    /\ call.entryLft # None
    /\ call.entryTime - call.entryLft[1] >= recovery_timeout

Counted(out) == out.kind = "raise" /\ IsInstance(out, expected_exception)
Uncounted(out) == out.kind = "raise" /\ ~ IsInstance(out, expected_exception)

\* C1: the operation never runs while the breaker is OPEN, and a call entered
\* while OPEN, with less than recovery_timeout elapsed since last_failure_time,
\* raises CircuitBreakerOpenError without invoking the operation.
C1_OpenRejects ==
    /\ pc = "invoke" => state # "OPEN"
    /\ EnteredBlocked =>
          /\ pc = "idle"
          /\ call.done
          /\ ~ call.invoked
          /\ result = CircuitOpenRejection

C1_Witness ==
    /\ EnteredBlocked
    /\ call.done
    /\ ~ call.invoked
    /\ result = CircuitOpenRejection
    /\ recovery_timeout = 2
    /\ call.entryTime - call.entryLft[1] = 1

\* C2: from CLOSED with failure_count 0, fewer than failure_threshold consecutive
\* counted failures leave the breaker CLOSED, the failure_threshold-th opens it,
\* and the next call, made before recovery_timeout elapses, is rejected with
\* CircuitBreakerOpenError without invoking the operation.
C2_OpensAtThreshold ==
    /\ (streak >= 0 /\ streak < failure_threshold) =>
          (state = "CLOSED" /\ failure_count = streak)
    /\ (pc = "idle" /\ streak = failure_threshold) => state = "OPEN"
    /\ (call.entryStreak = failure_threshold /\ EnteredBlocked) =>
          (call.done /\ ~ call.invoked /\ result = CircuitOpenRejection)

C2_Witness ==
    /\ failure_threshold = 2
    /\ streak = failure_threshold
    /\ state = "OPEN"
    /\ call.entryStreak = failure_threshold
    /\ EnteredBlocked
    /\ result = CircuitOpenRejection

\* C3: a call entered while OPEN with at least recovery_timeout elapsed is let
\* through in HALF_OPEN; if the operation returns, the breaker is CLOSED with
\* failure_count 0 and the result is returned; if it raises a counted failure,
\* the breaker is OPEN again, last_failure_time is the time of that failure and
\* failure_count is one higher.
C3_Recovery ==
    EnteredEligible =>
        /\ call.invoked
        /\ call.invokeState = "HALF_OPEN"
        /\ pc = "invoke" => state = "HALF_OPEN"
        /\ (call.done /\ call.outcome.kind = "return") =>
              /\ state = "CLOSED"
              /\ failure_count = 0
              /\ result = call.outcome
        /\ (call.done /\ Counted(call.outcome)) =>
              /\ state = "OPEN"
              /\ last_failure_time = Some(call.endTime)
              /\ failure_count = call.entryCount + 1
              /\ result = call.outcome

C3_Witness ==
    /\ EnteredEligible
    /\ recovery_timeout = 2
    /\ call.done
    /\ call.outcome.kind = "return"
    /\ call.entryCount = 2
    /\ state = "CLOSED"
    /\ failure_count = 0

\* C4 (the claim as stated): HALF_OPEN lets exactly one trial call through; the
\* breaker has left HALF_OPEN when the trial call ends, so the operation is not
\* invoked a second time while the breaker is still HALF_OPEN.
C4_SingleTrial ==
    /\ halfOpenInvocations <= 1
    /\ pc = "idle" => state # "HALF_OPEN"

\* C5 (the claim as stated): once the breaker has opened and while the operation
\* keeps failing, two successive invocations of the operation are at least
\* recovery_timeout apart.
C5_ProbeSpacing ==
    call.gap # None => call.gap[1] >= recovery_timeout

\* C6: a call whose operation returns leaves failure_count 0 and the breaker
\* CLOSED, whatever they were before; while every call so far has succeeded the
\* breaker is CLOSED.
C6_SuccessResets ==
    /\ (pc = "idle" /\ call.done /\ call.invoked /\ call.outcome.kind = "return") =>
          (failure_count = 0 /\ state = "CLOSED")
    /\ onlySuccess => (state = "CLOSED" /\ failure_count = 0)

C6_Witness ==
    /\ pc = "idle"
    /\ call.done
    /\ call.outcome.kind = "return"
    /\ call.entryState = "CLOSED"
    /\ call.entryCount = 1
    /\ failure_count = 0

\* C7 (the claim as stated): when the operation raises an exception that is not
\* an expected_exception, it propagates and state, failure_count and
\* last_failure_time are what they were when the call was made.
C7_UncountedLeavesBreaker ==
    (pc = "idle" /\ call.done /\ call.invoked /\ Uncounted(call.outcome)) =>
        /\ result = call.outcome
        /\ state = call.entryState
        /\ failure_count = call.entryCount
        /\ last_failure_time = call.entryLft

\* C8: call raises CircuitBreakerOpenError only when it rejects a call entered
\* while OPEN without invoking the operation; a call that invoked the operation
\* delivers exactly what the operation returned or raised.
C8_RejectionDistinct ==
    call.done =>
        /\ call.invoked => (result = call.outcome /\ result # CircuitOpenRejection)
        /\ ~ call.invoked => (result = CircuitOpenRejection /\ call.entryState = "OPEN")
        /\ result.cls = "CircuitBreakerOpenError" => ~ call.invoked

C8_Witness ==
    /\ call.done
    /\ call.invoked
    /\ Counted(call.outcome)
    /\ call.invokeState = "CLOSED"
    /\ state = "OPEN"
    /\ result = call.outcome
    /\ result.status = {500}

\* C9 (the claim as stated): with the default expected_exception only a server
\* fault or a transport failure is counted; a failure of any other kind leaves
\* failure_count and the state as they were when the operation was invoked.
C9_DefaultCountsServerFaults ==
    ( /\ expected_exception = DefaultExpectedException
      /\ pc = "idle" /\ call.done /\ call.invoked
      /\ call.outcome.kind = "raise"
      /\ Kind(call.outcome) \notin {"ServerFault", "Transport"} ) =>
        /\ failure_count = call.entryCount
        /\ state = call.invokeState

(***************************************************************************)
(* Properties of retry_on_failure, checked under SpecRetry.                *)
(***************************************************************************)
\* C10: one call of the wrapped function never invokes the operation more than
\* max_attempts times; when every invocation fails with a retryable error, the
\* operation is invoked exactly max_attempts times and the call then raises the
\* error of the last invocation.
C10_ExhaustsAttempts ==
    /\ invocations <= config.max_attempts
    /\ (wpc = "done" /\ allRetryable) =>
          /\ invocations = config.max_attempts
          /\ invocations >= 1 => (wresult = lastObserved /\ wresult.kind = "raise")

C10_Witness ==
    /\ wpc = "done"
    /\ allRetryable
    /\ config.max_attempts = 3
    /\ invocations = 3
    /\ wresult = Raise("APIError", {500})
    /\ Len(sleeps) = 2

\* C11: when the operation fails with a retryable error k times and then
\* returns, with k below max_attempts, the call returns that value at once: the
\* operation has been invoked exactly k + 1 times, no further attempt follows and
\* no delay follows the success (the loop index `attempt` is k, the number of
\* failures retried so far).
C11_SuccessAfterFailures ==
    lastObserved.kind = "return" =>
        /\ wpc = "done"
        /\ wresult = lastObserved
        /\ attempt < config.max_attempts
        /\ invocations = attempt + 1
        /\ Len(sleeps) <= attempt

C11_Witness ==
    /\ wpc = "done"
    /\ lastObserved = Return({200})
    /\ wresult = Return({200})
    /\ config.max_attempts = 3
    /\ attempt = 2
    /\ invocations = 3
    /\ last_exception = Some(Raise("APIError", {500}))
    /\ Len(sleeps) = 2

\* C12: when the operation raises an error should_retry refuses, on whatever
\* attempt, that same error is raised to the caller at once and the operation is
\* not invoked again; an operation whose first error is an AuthenticationError
\* is invoked exactly once.
C12_NonRetryablePropagates ==
    /\ (lastObserved.kind = "raise" /\ ~ should_retry(lastObserved, config)) =>
          /\ wpc = "done"
          /\ wresult = lastObserved
          /\ invocations = attempt + 1
    /\ (lastObserved.cls = "AuthenticationError" /\ attempt = 0) =>
          (wpc = "done" /\ invocations = 1 /\ wresult = lastObserved)

C12_Witness ==
    /\ wpc = "done"
    /\ config.max_attempts = 3
    /\ attempt = 1
    /\ invocations = 2
    /\ last_exception = Some(Raise("APIError", {404}))
    /\ lastObserved = Raise("APIError", {404})
    /\ wresult = lastObserved
    /\ 404 \in config.non_retryable_status_codes

\* C13 (the claim as stated): for every RetryConfig that can be constructed, a
\* call that ends in failure raises what the operation raised on its last
\* invocation, never an error made up by the wrapper.
C13_RaisesRealFailure ==
    (wpc = "done" /\ wresult.kind = "raise") =>
        /\ invocations >= 1
        /\ wresult = lastObserved

(***************************************************************************)
(* Properties of should_retry, checked under SpecRetry on the errors the   *)
(* wrapper hands to it.                                                    *)
(***************************************************************************)
\* e is an instance of one of cfg.retryable_exceptions.
Listed(e, cfg) == \E c \in cfg.retryable_exceptions : IsInstance(e, c)

\* e is an APIError whose status_code is one of cfg.non_retryable_status_codes.
RefusedStatus(e, cfg) ==
    /\ IsInstance(e, "APIError")
    /\ \E code \in e.status : code \in cfg.non_retryable_status_codes

\* C15: should_retry is false for every AuthenticationError whatever the policy,
\* also when retryable_exceptions holds AuthenticationError or a base class of
\* it; the wrapper therefore raises it at once.
C15_AuthenticationNeverRetried ==
    /\ ~ should_retry(TokenFailure, config)
    /\ IsInstance(lastObserved, "AuthenticationError") =>
          /\ ~ should_retry(lastObserved, config)
          /\ wpc = "done"
          /\ wresult = lastObserved

C15_Witness ==
    /\ "AuthenticationError" \in config.retryable_exceptions
    /\ config.max_attempts = 3
    /\ lastObserved = TokenFailure
    /\ invocations = 2
    /\ wpc = "done"
    /\ wresult = TokenFailure

\* C16 (the claim as stated): should_retry(e, config) is false when e is no
\* instance of config.retryable_exceptions, false when e is an APIError whose
\* status_code is in config.non_retryable_status_codes, and true in every other
\* case.
C16_TrueInEveryOtherCase ==
    (lastObserved.kind = "raise" /\ IsInstance(lastObserved, "Exception")) =>
        should_retry(lastObserved, config) =
            (Listed(lastObserved, config) /\ ~ RefusedStatus(lastObserved, config))

\* C16 (amended): should_retry(e, config) is false when e is no instance of
\* config.retryable_exceptions, false when e is an APIError whose status_code is
\* in config.non_retryable_status_codes, false when e is an AuthenticationError,
\* and true in every other case; the wrapper raises e at once when it is false
\* and goes on to the next attempt, if one is left, when it is true.
C16_TrueExceptAuthentication ==
    (lastObserved.kind = "raise" /\ IsInstance(lastObserved, "Exception")) =>
        LET retry == /\ Listed(lastObserved, config)
                     /\ ~ RefusedStatus(lastObserved, config)
                     /\ ~ IsInstance(lastObserved, "AuthenticationError")
        IN /\ should_retry(lastObserved, config) = retry
           /\ ~ retry => (wpc = "done" /\ wresult = lastObserved)
           /\ (retry /\ invocations < config.max_attempts) =>
                 (wpc = "loop" /\ attempt = invocations)

C16_Witness ==
    /\ config.retryable_exceptions = {"APIError"}
    /\ config.non_retryable_status_codes = DefaultNonRetryableStatusCodes
    /\ config.max_attempts = 3
    /\ lastObserved = TransportFailure
    /\ last_exception = Some(TransportFailure)
    /\ should_retry(lastObserved, config)
    /\ wpc = "loop"
    /\ attempt = 2

(***************************************************************************)
(* Properties of calculate_delay, checked under SpecRetry on the config in *)
(* use and on the durations the wrapper has slept.                         *)
(***************************************************************************)
\* min(base_delay * exponential_base^(att - 1), max_delay), for att >= 1.
Unjittered(att, cfg) ==
    Min(cfg.base_delay * Pow(cfg.exponential_base, att - 1), cfg.max_delay)

\* The one value calculate_delay returns for att when jitter is disabled.
WithoutJitter(att, cfg) ==
    CHOOSE v \in calculate_delay(att, [cfg EXCEPT !.jitter = FALSE]) : TRUE

\* v is within 10% of u.
WithinTenPercent(v, u) == 10 * (v - u) <= u /\ 10 * (u - v) <= u

\* C17: calculate_delay(0, config) is exactly 0 for every config; for an attempt
\* of 1 or more with jitter disabled it is exactly
\* min(base_delay * exponential_base^(attempt - 1), max_delay), one value only,
\* and that is what the wrapper sleeps before the attempt.
C17_DelayWithoutJitter ==
    /\ calculate_delay(0, config) = {0}
    /\ invocations <= 1 => sleeps = <<>>
    /\ ~ config.jitter =>
          /\ \A a \in 1..MaxAttempts :
                calculate_delay(a, config) = { Unjittered(a, config) }
          /\ \A i \in 1..Len(sleeps) : sleeps[i] = Unjittered(i, config)

C17_Witness ==
    /\ ~ config.jitter
    /\ config.base_delay = 10
    /\ config.exponential_base = 2
    /\ config.max_delay = 30
    /\ invocations = 3
    /\ sleeps = << 10, 20 >>
    /\ calculate_delay(3, config) = {30}

\* C18 (the claim as stated): with jitter enabled, for every attempt and config
\* the result of calculate_delay is at least 0 and within 10% of the value
\* without jitter, and more than one value of that range is possible for the
\* same inputs (stated for the attempts the wrapper has made).
C18_JitterAlwaysVaries ==
    config.jitter =>
        \A a \in 0..(invocations - 1) :
            /\ \A v \in calculate_delay(a, config) :
                  v >= 0 /\ WithinTenPercent(v, WithoutJitter(a, config))
            /\ Cardinality(calculate_delay(a, config)) > 1

\* C18 (amended): with jitter enabled, for every attempt and config the result
\* of calculate_delay is at least 0 and within 10% of the value without jitter;
\* more than one value of that range is possible for the same inputs when the
\* value without jitter is positive, and the result is always 0 when it is 0
\* (attempt 0, or a base_delay of 0). The wrapper sleeps such a value.
C18_JitterWithinTenPercent ==
    config.jitter =>
        /\ \A a \in 0..MaxAttempts :
              /\ \A v \in calculate_delay(a, config) :
                    v >= 0 /\ WithinTenPercent(v, WithoutJitter(a, config))
              /\ WithoutJitter(a, config) > 0 =>
                    Cardinality(calculate_delay(a, config)) > 1
              /\ WithoutJitter(a, config) = 0 => calculate_delay(a, config) = {0}
        /\ \A i \in 1..Len(sleeps) :
              sleeps[i] > 0 /\ WithinTenPercent(sleeps[i], Unjittered(i, config))

C18_Witness ==
    /\ config.jitter
    /\ config.base_delay = 10
    /\ config.exponential_base = 2
    /\ config.max_delay = 30
    /\ sleeps = << 9, 22 >>
    /\ invocations = 3

\* C19 (the claim as stated): for every attempt and config, jitter enabled or
\* not, the delay calculate_delay returns, which the wrapper sleeps, never
\* exceeds config.max_delay.
C19_DelayNeverExceedsMaxDelay ==
    \A i \in 1..Len(sleeps) : sleeps[i] <= config.max_delay

\* C23: the wrapper sleeps between attempts only: before attempt k >= 1 it sleeps
\* what calculate_delay(k, config) returns and then invokes the operation; there
\* is no sleep before the first attempt and none after the last invocation,
\* whether that ended in a success, a refused error or the final failure. With
\* jitter off, exponential_base 2, a positive base_delay and two retryable
\* failures before a success the sleeps are base_delay and twice base_delay, and
\* there are 3 invocations (a delay of 0 is not slept at all).
C23_SleepsBetweenAttempts ==
    /\ invocations <= 1 => sleeps = <<>>
    /\ Len(sleeps) <= attempt
    /\ invocations >= 1 => Len(sleeps) <= invocations - 1
    /\ (invocations >= 1 /\ config.base_delay > 0) => Len(sleeps) = invocations - 1
    /\ config.base_delay > 0 =>
          \A k \in 1..Len(sleeps) : sleeps[k] \in calculate_delay(k, config)
    /\ ( /\ ~ config.jitter /\ config.exponential_base = 2
         /\ config.base_delay > 0
         /\ config.base_delay * 2 <= config.max_delay
         /\ wpc = "done" /\ wresult.kind = "return" /\ attempt = 2 ) =>
          /\ sleeps = << config.base_delay, 2 * config.base_delay >>
          /\ invocations = 3

C23_Witness ==
    /\ ~ config.jitter
    /\ config.exponential_base = 2
    /\ config.base_delay = 10
    /\ config.max_delay = 30
    /\ config.max_attempts = 3
    /\ wpc = "done"
    /\ wresult = Return({200})
    /\ last_exception = Some(TransportFailure)
    /\ attempt = 2
    /\ invocations = 3
    /\ sleeps = << 10, 20 >>

(***************************************************************************)
(* Properties of configuration, checked under SpecConfig.                  *)
(***************************************************************************)
\* C14 (the claim as stated): a max_attempts below 1 is rejected when the policy
\* is constructed: a UnifiedCatalogConfig with max_retry_attempts below 1 does
\* not pass validate and yields no RetryConfig, so the retry wrapper never runs
\* with a config whose max_attempts is below 1.
C14_ZeroAttemptsRejected ==
    /\ ucfg.max_retry_attempts < 1 => cpc \notin {"valid", "built"}
    /\ wpc # "idle" => config.max_attempts >= 1

(***************************************************************************)
(* Properties of ApiClient.request, checked under SpecClient.              *)
(***************************************************************************)
\* C20: in the pipeline of request the breaker is updated once per request: while
\* the wrapper makes its attempts failure_count, last_failure_time and the state
\* are what they were when the wrapper was called, and when the request ends the
\* breaker has seen the wrapper's final outcome only: failure_count is one
\* higher for a counted failure, 0 for a returned value, unchanged otherwise,
\* however many attempts failed inside.
C20_OnceUpdatePerRequest ==
    /\ pc = "invoke" =>
          /\ failure_count = call.entryCount
          /\ last_failure_time = call.entryLft
          /\ state = call.invokeState
    /\ (pc = "idle" /\ call.done /\ call.invoked) =>
          /\ wpc = "done"
          /\ call.outcome = wresult
          /\ result = wresult
          /\ Counted(wresult) => failure_count = call.entryCount + 1
          /\ wresult.kind = "return" => failure_count = 0
          /\ Uncounted(wresult) => failure_count = call.entryCount

C20_Witness ==
    /\ pc = "idle"
    /\ call.done
    /\ call.invoked
    /\ invocations = 3
    /\ Len(sleeps) = 2
    /\ last_exception = Some(Raise("APIError", {500}))
    /\ wresult = Raise("APIError", {500})
    /\ call.entryCount = 1
    /\ failure_count = 2

\* C30: in ApiClient.request an attempt that fails to obtain a token or gets an
\* HTTP 401 raises AuthenticationError and is the last of the request: it is not
\* retried and no sleep follows it, so a request whose first attempt fails this
\* way makes one attempt and never sleeps.  The breaker does not count it:
\* failure_count, last_failure_time and state are what they were when the
\* request was let through, and the state is not OPEN.
C30_AuthenticationFailureNotCounted ==
    /\ ResponseOutcome(401) = Raise("AuthenticationError", {})
    /\ IsInstance(lastObserved, "AuthenticationError") =>
          /\ wpc = "done"
          /\ wresult = lastObserved
          /\ invocations = attempt + 1
          /\ Len(sleeps) = attempt
          /\ attempt = 0 => (invocations = 1 /\ sleeps = <<>>)
    /\ ( /\ pc = "idle" /\ call.done /\ call.invoked
         /\ IsInstance(call.outcome, "AuthenticationError") ) =>
          /\ result = call.outcome
          /\ failure_count = call.entryCount
          /\ last_failure_time = call.entryLft
          /\ state = call.invokeState
          /\ state # "OPEN"

C30_Witness ==
    /\ pc = "idle"
    /\ call.done
    /\ call.invoked
    /\ wresult = TokenFailure
    /\ result = TokenFailure
    /\ invocations = 1
    /\ sleeps = <<>>
    /\ call.entryCount = DefaultFailureThreshold - 1
    /\ failure_count = DefaultFailureThreshold - 1
    /\ state = "CLOSED"

(***************************************************************************)
(* Properties of an ApiClient constructed with any retry_config, checked   *)
(* under SpecClientAny.                                                    *)
(***************************************************************************)
\* C29: whatever retry_config the ApiClient was constructed with, the wrapper of
\* _request_with_retry runs with the default RetryConfig: a request invokes the
\* HTTP operation at most 3 times, sleeps within 10% of 1 s and then 2 s between
\* attempts, raises at once an APIError whose status is one of the default
\* non-retryable codes, and gives up on a retryable failure only after the
\* third attempt; self.retry_config plays no part.
C29_DefaultRetryForEveryClient ==
    /\ config = DefaultRetryConfig
    /\ invocations <= 3
    /\ Len(sleeps) <= 2
    /\ \A i \in 1..Len(sleeps) :
          WithinTenPercent(sleeps[i], Unjittered(i, DefaultRetryConfig))
    /\ (lastObserved.kind = "raise" /\ RefusedStatus(lastObserved, DefaultRetryConfig)) =>
          (wpc = "done" /\ wresult = lastObserved)
    /\ (wpc = "done" /\ wresult.kind = "raise"
          /\ should_retry(wresult, DefaultRetryConfig)) => invocations = 3

C29_Witness ==
    /\ retry_config # DefaultRetryConfig
    /\ retry_config.max_attempts = 1
    /\ pc = "idle"
    /\ call.done
    /\ wpc = "done"
    /\ wresult = Raise("APIError", {500})
    /\ invocations = 3
    /\ sleeps = << 10, 20 >>

(***************************************************************************)
(* Properties of ConfigManager.load_default, checked under SpecLoad.       *)
(***************************************************************************)
\* The settings of the config file, when one is found and it loads.
FileGiven ==
    IF config_file # None /\ from_file(config_file[1]).raised = None
    THEN config_file[1] ELSE NoSettings

\* The value of field f by precedence: environment, then file, then default.
ByPrecedence(f) ==
    IF environ[f] # None
    THEN (IF f = "max_retry_attempts" THEN Some(ParseInt(environ[f][1]))
          ELSE environ[f])
    ELSE IF FileGiven[f] # None THEN FileGiven[f]
    ELSE FieldDefault(f)

\* C21 (the claim as stated): load_default builds the configuration by
\* precedence: every field has the value of its environment variable if that is
\* set, else the value the config file gives it, else its default; a file value
\* is never replaced by a default.
C21_LoadByPrecedence ==
    (lpc = "done" /\ ByPrecedence("account_id") # None) =>
        /\ lresult.instance # None
        /\ \A f \in LoadFields : lresult.instance[1][f] = ByPrecedence(f)

(***************************************************************************)
(* More properties of CircuitBreaker, checked under Spec.                  *)
(***************************************************************************)
\* C22: the breaker starts CLOSED and its state changes only in four ways:
\* CLOSED -> OPEN when an invoked operation ends in the counted failure that
\* brings failure_count to failure_threshold; OPEN -> HALF_OPEN when a call is
\* entered with recovery_timeout elapsed; HALF_OPEN -> CLOSED when the invoked
\* operation returns; HALF_OPEN -> OPEN when it ends in a counted failure.
\* Nothing else, and no step outside a call, changes the state.
C22_DefinedTransitions ==
    /\ state = "CLOSED"
    /\ [][ state' # state =>
             \/ /\ state = "CLOSED" /\ state' = "OPEN"
                /\ pc = "invoke" /\ pc' = "idle"
                /\ Counted(call'.outcome)
                /\ failure_count' = failure_count + 1
                /\ failure_count' = failure_threshold
             \/ /\ state = "OPEN" /\ state' = "HALF_OPEN"
                /\ pc = "idle" /\ pc' = "invoke"
                /\ last_failure_time # None
                /\ now - last_failure_time[1] >= recovery_timeout
             \/ /\ state = "HALF_OPEN" /\ state' = "CLOSED"
                /\ pc = "invoke" /\ pc' = "idle"
                /\ call'.outcome.kind = "return"
             \/ /\ state = "HALF_OPEN" /\ state' = "OPEN"
                /\ pc = "invoke" /\ pc' = "idle"
                /\ Counted(call'.outcome) ]_vars

C22_Witness ==
    /\ failure_threshold = 2
    /\ call.entryState = "OPEN"
    /\ call.invokeState = "HALF_OPEN"
    /\ call.done
    /\ Counted(call.outcome)
    /\ state = "OPEN"
    /\ failure_count = 3
    /\ pc = "idle"

\* C24: last_failure_time is set exactly when a counted failure occurs: the step
\* in which an invoked operation ends by raising expected_exception sets it to
\* the time of that step, and no other step (a success, a rejection, an uncounted
\* failure, the entry of a call, the clock) changes it. It is consulted only
\* while the breaker is OPEN: a call entered in another state is let through
\* whatever last_failure_time is.
C24_LastFailureTimeFrame ==
    /\ []( (call.entryState # "OPEN" /\ (pc = "invoke" \/ call.done)) => call.invoked )
    /\ [][ /\ (pc = "invoke" /\ pc' = "idle" /\ Counted(call'.outcome)) =>
                last_failure_time' = Some(now)
           /\ last_failure_time' # last_failure_time =>
                (pc = "invoke" /\ pc' = "idle" /\ Counted(call'.outcome)) ]_vars

C24_Witness ==
    /\ last_failure_time = Some(1)
    /\ call.entryLft = Some(1)
    /\ call.entryState = "OPEN"
    /\ call.done
    /\ call.outcome.kind = "return"
    /\ call.endTime = 3
    /\ state = "CLOSED"

\* C26: in every reachable state of the single-threaded breaker the state is
\* CLOSED, OPEN or HALF_OPEN and failure_count is at least 0; when CLOSED,
\* failure_count is below failure_threshold; when OPEN or HALF_OPEN,
\* failure_count is at least failure_threshold and last_failure_time is set.
C26_BreakerInvariant ==
    /\ state \in {"CLOSED", "OPEN", "HALF_OPEN"}
    /\ failure_count >= 0
    /\ state = "CLOSED" => failure_count < failure_threshold
    /\ state \in {"OPEN", "HALF_OPEN"} =>
          (failure_count >= failure_threshold /\ last_failure_time # None)

C26_Witness ==
    /\ failure_threshold = 2
    /\ state = "HALF_OPEN"
    /\ pc = "invoke"
    /\ failure_count = 3
    /\ last_failure_time = Some(2)
    /\ now = 4

\* C27: a call rejected with CircuitBreakerOpenError changes nothing in the
\* breaker: the state is still OPEN and failure_count and last_failure_time are
\* what they were, so the next probe is eligible recovery_timeout after the last
\* counted failure however many calls were rejected meanwhile.
C27_RejectionChangesNothing ==
    (pc = "idle" /\ call.done /\ ~ call.invoked) =>
        /\ result = CircuitOpenRejection
        /\ state = "OPEN"
        /\ failure_count = call.entryCount
        /\ last_failure_time = call.entryLft
        /\ last_failure_time # None
        /\ should_attempt_reset = (now - call.entryLft[1] >= recovery_timeout)

C27_Witness ==
    /\ pc = "idle"
    /\ call.done
    /\ ~ call.invoked
    /\ recovery_timeout = 2
    /\ last_failure_time = Some(1)
    /\ call.entryTime = 2
    /\ now = 3
    /\ state = "OPEN"
    /\ should_attempt_reset

(***************************************************************************)
(* Liveness of CircuitBreaker, checked under SpecLive.                     *)
(***************************************************************************)
\* No invoked operation has failed in the call that is the latest.
LatestDidNotFail == call.done => (~ call.invoked \/ call.outcome.kind = "return")

\* C28: the breaker cannot stay locked out for ever: when the clock keeps
\* advancing and calls keep being made (the fairness of SpecLive), and from some
\* point on every invoked operation succeeds, the breaker is eventually CLOSED
\* with failure_count 0 for good, and from then on no call is rejected.
C28_EventuallyClosed ==
    <>[]LatestDidNotFail =>
        <>[]( /\ state = "CLOSED"
              /\ failure_count = 0
              /\ call.done => call.invoked )

C28_Witness ==
    /\ failure_threshold = 2
    /\ call.entryState = "HALF_OPEN"
    /\ call.entryCount = 2
    /\ call.done
    /\ call.outcome.kind = "return"
    /\ state = "CLOSED"
    /\ failure_count = 0
    /\ now = 4

(***************************************************************************)
(* Properties of a shared CircuitBreaker, checked under SpecThreads.       *)
(***************************************************************************)
\* C25 (the claim as stated): when the calls of all the threads sharing a breaker
\* have invoked their operations and all of these have ended in counted
\* failures, no update is lost: failure_count is the number of threads, and the
\* breaker is OPEN if that count has reached failure_threshold.
C25_NoLostUpdate ==
    (\A t \in Threads : tpc[t] = "done" /\ Counted(tout[t])) =>
        /\ failure_count = MaxThreads
        /\ failure_count >= failure_threshold => state = "OPEN"

============================================================================
